---- MODULE Spec2Model ----
(***************************************************************************)
(* Model of apps/budget/training-data/finetune-mlx.py and                  *)
(* finetune-unsloth.py: one run of either script from process start to     *)
(* process exit, and prepare_training_data as a function of its arguments. *)
(*                                                                         *)
(* A text is a sequence of tokens: the literal pieces of the f-strings of  *)
(* lines 69-73 and the content strings are the tokens.  An example is the  *)
(* dict built at line 75; `id` is the identity of that dict object (the    *)
(* number of the input line it was built from), so that the copies made by *)
(* examples.extend at line 89 can be told from distinct examples.          *)
(***************************************************************************)
EXTENDS Integers, Sequences, FiniteSets, TLC

VARIABLES
    script,          \* which script runs
    pc,              \* position of the run
    lib_installed,   \* mlx-lm (mlx script) / unsloth (unsloth script) importable
    deps_installed,  \* datasets, transformers, trl importable
    model_key,       \* --model
    epochs,          \* --epochs
    batch_size,      \* --batch-size, then train's local batch_size
    file,            \* the lines of the --data file
    val_split,       \* prepare_training_data argument, <<numerator, denominator>>
    min_batch_size,  \* prepare_training_data argument
    examples,        \* prepare_training_data local
    total,           \* prepare_training_data local
    val_size,        \* prepare_training_data local
    train_examples,  \* prepare_training_data local
    valid_examples,  \* prepare_training_data local
    train_jsonl,     \* lines written to <output>/data/train.jsonl
    valid_jsonl,     \* lines written to <output>/data/valid.jsonl
    num_examples,    \* train local
    iters,           \* train local
    model_path,      \* train local (mlx) / config["model_name"] (unsloth)
    cmd,             \* the command line handed to subprocess.run
    proc,            \* how the external training ended
    printed,         \* messages printed so far
    exit_code,       \* process exit code
    unhandled        \* exception that left the program unhandled

vars == <<script, pc, lib_installed, deps_installed, model_key, epochs, batch_size,
          file, val_split, min_batch_size, examples, total, val_size,
          train_examples, valid_examples, train_jsonl, valid_jsonl, num_examples,
          iters, model_path, cmd, proc, printed, exit_code, unhandled>>

prepVars == <<examples, total, val_size, train_examples, valid_examples,
              train_jsonl, valid_jsonl>>
trainVars == <<num_examples, iters, model_path, cmd, proc>>
inputVars == <<script, lib_installed, deps_installed, model_key, epochs, file,
               val_split, min_batch_size>>

None == "none"

\* No command line built yet; no external training run yet.
NoCmd == [built |-> FALSE, model |-> None, iters |-> 0, batch_size |-> 0]
NotRun == [status |-> "not run", returncode |-> 0]

\* ------------------------------------------------------------------ bounds
MaxLines == 4
MaxMsgs == 3
MaxExamples == 7

\* ------------------------------------------------------- program constants
DefaultMinBatchSize == 2
MinIters == 10
ExitFailure == 1
ArgparseExit == 2

DefaultValSplit == <<1, 10>>

Max(a, b) == IF a >= b THEN a ELSE b
Min(a, b) == IF a <= b THEN a ELSE b

\* Python's floor division a // b for b # 0.
FloorDiv(a, b) == IF b > 0 THEN a \div b ELSE (0 - a) \div (0 - b)

\* ----------------------------------------------------------------- inputs
Roles == {"system", "user", "assistant", "tool"}
Contents == {"c1", "c2"}
Messages == [role : Roles, content : Contents]

BlankLine == [kind |-> "blank", messages |-> <<>>]
\* A line on which json.loads (line 59) raises.
BadLine == [kind |-> "bad", messages |-> <<>>]
JsonLine(msgs) == [kind |-> "json", messages |-> msgs]

SeqsUpTo(S, n) == UNION {[1..k -> S] : k \in 0..n}

SampleConversation ==
    <<[role |-> "system", content |-> "c1"],
      [role |-> "user", content |-> "c2"],
      [role |-> "assistant", content |-> "c1"]>>

\* Files of up to MaxLines lines: blank lines, lines that are not JSON, examples.
SampleFiles == SeqsUpTo({BlankLine, BadLine, JsonLine(SampleConversation)}, MaxLines)

\* Files of up to MaxExamples examples and nothing else.
ExampleFiles ==
    {[i \in 1..n |-> JsonLine(SampleConversation)] : n \in 0..MaxExamples}

\* One-line files holding every conversation of up to MaxMsgs messages.
ConversationFiles == {<<JsonLine(m)>> : m \in SeqsUpTo(Messages, MaxMsgs)}

ValSplits == {<<0, 1>>, <<1, 10>>, <<1, 4>>, <<1, 2>>, <<1, 1>>}
MinBatchSizes == {1, 2, 3}

\* ------------------------------------------------- prepare_training_data
FormatMessage_WrongTag(msg) ==
    IF msg.role = "system"
    THEN <<<<"<|im_start|>", "system", "\n", msg.content, "<|im_end|>">>>>
    ELSE IF msg.role = "user"
    THEN <<<<"<|im_start|>", "assistant", "\n", msg.content, "<|im_end|>">>>>
    ELSE IF msg.role = "assistant"
    THEN <<<<"<|im_start|>", "assistant", "\n", msg.content, "<|im_end|>">>>>
    ELSE <<>>

\* One pass of the loop body of lines 65-73: the parts appended for one message.
FormatMessage(msg) ==
    IF msg.role = "system"
    THEN <<<<"<|im_start|>", "system", "\n", msg.content, "<|im_end|>">>>>
    ELSE IF msg.role = "user"
    THEN <<<<"<|im_start|>", "user", "\n", msg.content, "<|im_end|>">>>>
    ELSE IF msg.role = "assistant"
    THEN <<<<"<|im_start|>", "assistant", "\n", msg.content, "<|im_end|>">>>>
    ELSE <<>>

RECURSIVE TextParts(_)
TextParts(messages) ==
    IF messages = <<>> THEN <<>>
    ELSE FormatMessage(Head(messages)) \o TextParts(Tail(messages))

\* "\n".join(parts)
RECURSIVE Join(_)
Join(parts) ==
    IF parts = <<>> THEN <<>>
    ELSE IF Len(parts) = 1 THEN parts[1]
    ELSE parts[1] \o <<"\n">> \o Join(Tail(parts))

FormatMessages(messages) == Join(TextParts(messages))

\* The examples list after the loop of lines 56-75: one dict per non-blank line.
LoadExamples(f) ==
    LET idx == SelectSeq([i \in 1..Len(f) |-> i], LAMBDA i : f[i].kind # "blank")
    IN [k \in 1..Len(idx) |->
            [id |-> idx[k], text |-> FormatMessages(f[idx[k]].messages)]]

HasBadLine(f) == \E i \in 1..Len(f) : f[i].kind = "bad"

\* random.seed(42); random.shuffle(x) for len(x) = n: position i of the result
\* holds the element that was at position ShuffleOrder(n)[i] (CPython's
\* Mersenne Twister, seed 42).
ShuffleOrder(n) ==
    CASE n = 0 -> <<>>
      [] n = 1 -> <<1>>
      [] n = 2 -> <<2, 1>>
      [] n = 3 -> <<2, 1, 3>>
      [] n = 4 -> <<3, 2, 4, 1>>
      [] n = 5 -> <<4, 2, 3, 5, 1>>
      [] n = 6 -> <<4, 2, 3, 5, 1, 6>>
      [] n = 7 -> <<2, 4, 5, 3, 7, 1, 6>>
      [] n = 8 -> <<4, 5, 7, 8, 3, 6, 1, 2>>
      [] n = 9 -> <<4, 7, 8, 5, 9, 3, 6, 1, 2>>

Shuffle(ex) == [i \in 1..Len(ex) |-> ex[ShuffleOrder(Len(ex))[i]]]

\* int(total * val_split)
IntOfFraction(n, vs) == (n * vs[1]) \div vs[2]

ValSize_NoMinimum(n, vs, mb) == IntOfFraction(n, vs)

\* line 83
ValSize(n, vs, mb) == Max(mb, IntOfFraction(n, vs))

DupExtend_WholeList(ex, mb) == ex \o ex

\* line 89: examples.extend(examples[:min_batch_size * 2 - len(examples)])
DupExtend(ex, mb) == ex \o SubSeq(ex, 1, Min(Len(ex), mb * 2 - Len(ex)))

TrainSlice_OffByOne(ex, vs) == SubSeq(ex, vs, Len(ex))

\* line 93: examples[val_size:]
TrainSlice(ex, vs) == SubSeq(ex, vs + 1, Len(ex))

\* line 94: examples[:val_size]
ValidSlice(ex, vs) == SubSeq(ex, 1, Min(vs, Len(ex)))

Raise(exc) ==
    /\ unhandled' = exc
    /\ exit_code' = ExitFailure
    /\ pc' = "exited"

\* lines 54-75
PrepLoad ==
    /\ pc = "prep_load"
    /\ IF HasBadLine(file)
       THEN /\ Raise("JSONDecodeError")
            /\ UNCHANGED examples
       ELSE /\ examples' = LoadExamples(file)
            /\ pc' = "prep_shuffle"
            /\ UNCHANGED <<unhandled, exit_code>>
    /\ UNCHANGED <<inputVars, trainVars, batch_size, total, val_size, train_examples,
                   valid_examples, train_jsonl, valid_jsonl, printed>>

\* lines 77-83
PrepShuffleAndSize ==
    /\ pc = "prep_shuffle"
    /\ examples' = Shuffle(examples)
    /\ total' = Len(examples)
    /\ val_size' = ValSize(Len(examples), val_split, min_batch_size)
    /\ pc' = "prep_check"
    /\ UNCHANGED <<inputVars, trainVars, batch_size, train_examples, valid_examples,
                   train_jsonl, valid_jsonl, printed, exit_code, unhandled>>

\* lines 86-87
PrepCheckTotal ==
    /\ pc = "prep_check"
    /\ IF total < min_batch_size * 2
       THEN /\ printed' = printed \cup {"Note: duplicating"}
            /\ pc' = "prep_dup"
       ELSE /\ pc' = "prep_slice"
            /\ UNCHANGED printed
    /\ UNCHANGED <<inputVars, trainVars, prepVars, batch_size, exit_code, unhandled>>

\* lines 88-89: one pass of the while loop
PrepDupStep ==
    /\ pc = "prep_dup"
    /\ Len(examples) < min_batch_size * 2
    /\ examples' = DupExtend(examples, min_batch_size)
    /\ UNCHANGED <<inputVars, trainVars, batch_size, total, val_size, train_examples,
                   valid_examples, train_jsonl, valid_jsonl, printed, exit_code,
                   unhandled, pc>>

\* lines 88, 90-91: the while condition fails
PrepDupDone ==
    /\ pc = "prep_dup"
    /\ ~(Len(examples) < min_batch_size * 2)
    /\ total' = Len(examples)
    /\ val_size' = min_batch_size
    /\ pc' = "prep_slice"
    /\ UNCHANGED <<inputVars, trainVars, batch_size, examples, train_examples,
                   valid_examples, train_jsonl, valid_jsonl, printed, exit_code,
                   unhandled>>

\* lines 93-109
PrepWrite ==
    /\ pc = "prep_slice"
    /\ train_examples' = TrainSlice(examples, val_size)
    /\ valid_examples' = ValidSlice(examples, val_size)
    /\ train_jsonl' = [i \in 1..Len(train_examples') |-> train_examples'[i].text]
    /\ valid_jsonl' = [i \in 1..Len(valid_examples') |-> valid_examples'[i].text]
    /\ printed' = printed \cup {"Prepared"}
    /\ pc' = "prep_done"
    /\ UNCHANGED <<inputVars, trainVars, batch_size, examples, total, val_size,
                   exit_code, unhandled>>

NextPrepare ==
    \/ PrepLoad
    \/ PrepShuffleAndSize
    \/ PrepCheckTotal
    \/ PrepDupStep
    \/ PrepDupDone
    \/ PrepWrite

InitLocals ==
    /\ examples = <<>>
    /\ total = 0
    /\ val_size = 0
    /\ train_examples = <<>>
    /\ valid_examples = <<>>
    /\ train_jsonl = <<>>
    /\ valid_jsonl = <<>>
    /\ num_examples = 0
    /\ iters = 0
    /\ model_path = None
    /\ cmd = NoCmd
    /\ proc = NotRun
    /\ printed = {}
    /\ exit_code = None
    /\ unhandled = None

\* prepare_training_data(input_path, output_dir, val_split, min_batch_size)
InitPrepare ==
    /\ script = "finetune-mlx.py"
    /\ pc = "prep_load"
    /\ lib_installed = TRUE
    /\ deps_installed = TRUE
    /\ model_key = None
    /\ epochs = 0
    /\ batch_size = 0
    /\ \/ /\ file \in SampleFiles \cup ExampleFiles
          /\ val_split \in ValSplits
          /\ min_batch_size \in MinBatchSizes
       \/ /\ file \in ConversationFiles
          /\ val_split = DefaultValSplit
          /\ min_batch_size = DefaultMinBatchSize
    /\ InitLocals

\* ------------------------------------------------------- finetune-mlx.py
ModelArgs == {"qwen2.5-3b", "qwen2.5-7b", "org/custom-model"}
EpochsArgs == {-1, 3, 10}
BatchSizeArgs == {-1, 0, 1, 2, 4}

\* lines 32-38
MLX_MODELS ==
    [k \in {"qwen2.5-3b", "qwen2.5-7b", "llama3.2-3b", "phi4-mini", "mistral-7b"} |->
        CASE k = "qwen2.5-3b" -> "mlx-community/Qwen2.5-3B-Instruct-4bit"
          [] k = "qwen2.5-7b" -> "mlx-community/Qwen2.5-7B-Instruct-4bit"
          [] k = "llama3.2-3b" -> "mlx-community/Llama-3.2-3B-Instruct-4bit"
          [] k = "phi4-mini" -> "mlx-community/phi-4-mini-instruct-4bit"
          [] k = "mistral-7b" -> "mlx-community/Mistral-7B-Instruct-v0.3-4bit"]

ResolveMlxModel_DefaultOnMiss(key) ==
    IF key \in DOMAIN MLX_MODELS THEN MLX_MODELS[key] ELSE MLX_MODELS["qwen2.5-3b"]

\* lines 127-132
ResolveMlxModel(key) ==
    IF key \in DOMAIN MLX_MODELS THEN MLX_MODELS[key] ELSE key

ClampIters_NoFloor(n) == n

\* lines 169-171
ClampIters(n) == IF n < MinIters THEN MinIters ELSE n

Exit(code) ==
    /\ exit_code' = code
    /\ pc' = "exited"
    /\ UNCHANGED unhandled

\* lines 22-28 (module import), 239-289 (main), 122-125 (train)
MlxCheckInstalled ==
    /\ script = "finetune-mlx.py"
    /\ pc = "start"
    /\ IF ~lib_installed
       THEN /\ printed' = printed \cup {"MLX not available", "Error: mlx-lm is required"}
            /\ Exit(ExitFailure)
       ELSE /\ pc' = "resolve_model"
            /\ UNCHANGED <<printed, exit_code, unhandled>>
    /\ UNCHANGED <<inputVars, trainVars, prepVars, batch_size>>

\* lines 127-154: up to the call prepare_training_data(data_path, str(data_dir)),
\* which takes the defaults val_split = 0.1 and min_batch_size = 2.  The output
\* directory of lines 140-151 is taken to be writable.
MlxResolveModel ==
    /\ script = "finetune-mlx.py"
    /\ pc = "resolve_model"
    /\ model_path' = ResolveMlxModel(model_key)
    /\ printed' = printed \cup {"=== Fine-tuning Budget Assistant on Apple Silicon ==="}
    /\ pc' = "prep_load"
    /\ UNCHANGED <<inputVars, prepVars, batch_size, num_examples, iters, cmd, proc,
                   exit_code, unhandled>>

\* lines 154-158: the call returns len(train_examples)
MlxCheckExamples ==
    /\ script = "finetune-mlx.py"
    /\ pc = "prep_done"
    /\ num_examples' = Len(train_examples)
    /\ IF Len(train_examples) = 0
       THEN /\ printed' = printed \cup {"Error: No training examples found"}
            /\ Exit(ExitFailure)
       ELSE /\ pc' = "adjust_batch"
            /\ UNCHANGED <<printed, exit_code, unhandled>>
    /\ UNCHANGED <<inputVars, prepVars, batch_size, iters, model_path, cmd, proc>>

\* lines 160-163
MlxAdjustBatch ==
    /\ script = "finetune-mlx.py"
    /\ pc = "adjust_batch"
    /\ IF num_examples < batch_size
       THEN /\ batch_size' = Max(1, num_examples)
            /\ printed' = printed \cup {"Note: Adjusted batch size"}
       ELSE UNCHANGED <<batch_size, printed>>
    /\ pc' = "calc_iters"
    /\ UNCHANGED <<inputVars, prepVars, trainVars, exit_code, unhandled>>

\* lines 165-171; integer division by zero raises ZeroDivisionError
MlxCalcIters ==
    /\ script = "finetune-mlx.py"
    /\ pc = "calc_iters"
    /\ IF batch_size = 0
       THEN /\ Raise("ZeroDivisionError")
            /\ UNCHANGED <<iters, printed>>
       ELSE /\ iters' = ClampIters(FloorDiv(num_examples * epochs, batch_size))
            /\ printed' = IF FloorDiv(num_examples * epochs, batch_size) < MinIters
                          THEN printed \cup {"Note: Adjusted to minimum iterations"}
                          ELSE printed
            /\ pc' = "build_cmd"
            /\ UNCHANGED <<exit_code, unhandled>>
    /\ UNCHANGED <<inputVars, prepVars, batch_size, num_examples, model_path, cmd, proc>>

\* lines 173-188
MlxBuildCmd ==
    /\ script = "finetune-mlx.py"
    /\ pc = "build_cmd"
    /\ cmd' = [built |-> TRUE, model |-> model_path, iters |-> iters,
               batch_size |-> batch_size]
    /\ printed' = printed \cup {"Starting training..."}
    /\ pc' = "run"
    /\ UNCHANGED <<inputVars, prepVars, batch_size, num_examples, iters, model_path,
                   proc, exit_code, unhandled>>

\* How subprocess.run(cmd, check=True) can end: the child's return code, or
\* FileNotFoundError when the executable cannot be started.
Outcomes ==
    {[status |-> "returned", returncode |-> rc] : rc \in {0, 1, 2, -9}}
    \cup {[status |-> "FileNotFoundError", returncode |-> 0]}

MlxRunTraining_NoCheck ==
    /\ script = "finetune-mlx.py"
    /\ pc = "run"
    /\ \E outcome \in Outcomes :
        /\ proc' = outcome
        /\ IF outcome.status = "FileNotFoundError"
           THEN /\ printed' = printed \cup {"Python or mlx-lm not found",
                                            "Make sure you're in the correct Python environment"}
                /\ Exit(ExitFailure)
           ELSE /\ pc' = "complete"
                /\ UNCHANGED <<printed, exit_code, unhandled>>
    /\ UNCHANGED <<inputVars, prepVars, batch_size, num_examples, iters, model_path, cmd>>

\* lines 190-209
MlxRunTraining ==
    /\ script = "finetune-mlx.py"
    /\ pc = "run"
    /\ \E outcome \in Outcomes :
        /\ proc' = outcome
        /\ IF outcome.status = "returned" /\ outcome.returncode = 0
           THEN /\ pc' = "complete"
                /\ UNCHANGED <<printed, exit_code, unhandled>>
           ELSE IF outcome.status = "FileNotFoundError"
           THEN /\ printed' = printed \cup {"Python or mlx-lm not found",
                                            "Make sure you're in the correct Python environment"}
                /\ Exit(ExitFailure)
           ELSE /\ printed' = printed \cup {"Training failed with exit code", "Troubleshooting:"}
                /\ Exit(ExitFailure)
    /\ UNCHANGED <<inputVars, prepVars, batch_size, num_examples, iters, model_path, cmd>>

\* lines 211-217, then main returns and the interpreter exits with 0
MlxComplete ==
    /\ script = "finetune-mlx.py"
    /\ pc = "complete"
    /\ printed' = printed \cup {"=== Training Complete ==="}
    /\ Exit(0)
    /\ UNCHANGED <<inputVars, prepVars, trainVars, batch_size>>

\* ---------------------------------------------------- finetune-unsloth.py
\* lines 36-57: the model_name of each configuration
MODEL_CONFIGS ==
    [k \in {"qwen2.5-3b", "phi4-mini", "llama3.2-3b", "mistral-7b"} |->
        CASE k = "qwen2.5-3b" -> "unsloth/Qwen2.5-3B-Instruct-bnb-4bit"
          [] k = "phi4-mini" -> "unsloth/Phi-4-mini-instruct-bnb-4bit"
          [] k = "llama3.2-3b" -> "unsloth/Llama-3.2-3B-Instruct-bnb-4bit"
          [] k = "mistral-7b" -> "unsloth/mistral-7b-instruct-v0.3-bnb-4bit"]

UnslothChoices_Any == ModelArgs

\* line 219: choices=list(MODEL_CONFIGS.keys())
UnslothChoices == DOMAIN MODEL_CONFIGS

\* lines 21-32 (module import) and 211-251 (main, parse_args): the unguarded
\* imports of lines 30-32 raise ImportError; argparse exits with 2 on a value
\* outside choices.
UnslothStart ==
    /\ script = "finetune-unsloth.py"
    /\ pc = "start"
    /\ IF ~deps_installed
       THEN /\ Raise("ImportError")
            /\ printed' = IF lib_installed THEN printed
                          ELSE printed \cup {"Warning: Unsloth not installed"}
       ELSE IF model_key \notin UnslothChoices
       THEN /\ printed' = (IF lib_installed THEN printed
                           ELSE printed \cup {"Warning: Unsloth not installed"})
                          \cup {"error: argument --model: invalid choice"}
            /\ Exit(ArgparseExit)
       ELSE /\ printed' = IF lib_installed THEN printed
                          ELSE printed \cup {"Warning: Unsloth not installed"}
            /\ pc' = "u_train"
            /\ UNCHANGED <<exit_code, unhandled>>
    /\ UNCHANGED <<inputVars, prepVars, trainVars, batch_size>>

\* lines 109-123: both early returns end train, main returns, exit code 0
UnslothResolveModel ==
    /\ script = "finetune-unsloth.py"
    /\ pc = "u_train"
    /\ IF ~lib_installed
       THEN /\ printed' = printed \cup {"Error: Unsloth is required"}
            /\ Exit(0)
            /\ UNCHANGED model_path
       ELSE IF model_key \notin DOMAIN MODEL_CONFIGS
       THEN /\ printed' = printed \cup {"Unknown model"}
            /\ Exit(0)
            /\ UNCHANGED model_path
       ELSE /\ model_path' = MODEL_CONFIGS[model_key]
            /\ printed' = printed \cup {"=== Fine-tuning Budget Assistant ==="}
            /\ pc' = "u_run"
            /\ UNCHANGED <<exit_code, unhandled>>
    /\ UNCHANGED <<inputVars, prepVars, batch_size, num_examples, iters, cmd, proc>>

\* lines 125-182: the library calls (from_pretrained, get_peft_model, the data
\* set, SFTTrainer, trainer.train, save_pretrained) either all return or one
\* raises; nothing catches the exception.
UnslothRunTraining ==
    /\ script = "finetune-unsloth.py"
    /\ pc = "u_run"
    /\ cmd' = [built |-> TRUE, model |-> model_path, iters |-> 0,
               batch_size |-> batch_size]
    /\ \E outcome \in {"ok", "Exception"} :
        /\ proc' = [status |-> outcome, returncode |-> 0]
        /\ IF outcome = "ok"
           THEN /\ pc' = "u_complete"
                /\ UNCHANGED <<exit_code, unhandled>>
           ELSE Raise("Exception")
    /\ printed' = printed \cup {"Starting training..."}
    /\ UNCHANGED <<inputVars, prepVars, batch_size, num_examples, iters, model_path>>

\* lines 184-189, then main returns and the interpreter exits with 0
UnslothComplete ==
    /\ script = "finetune-unsloth.py"
    /\ pc = "u_complete"
    /\ printed' = printed \cup {"=== Training Complete ==="}
    /\ Exit(0)
    /\ UNCHANGED <<inputVars, prepVars, trainVars, batch_size>>

\* ------------------------------------------------------- specifications
\* One run of either script: the environment and the command line are fixed
\* when the process starts.
Init ==
    /\ script \in {"finetune-mlx.py", "finetune-unsloth.py"}
    /\ pc = "start"
    /\ lib_installed \in BOOLEAN
    /\ model_key \in ModelArgs
    /\ epochs \in EpochsArgs
    /\ batch_size \in BatchSizeArgs
    /\ val_split = DefaultValSplit
    /\ min_batch_size = DefaultMinBatchSize
    /\ IF script = "finetune-mlx.py"
       THEN /\ deps_installed = TRUE
            /\ file \in SampleFiles \cup ExampleFiles
       ELSE /\ deps_installed \in BOOLEAN
            /\ file = <<>>
    /\ InitLocals

Next ==
    \/ MlxCheckInstalled
    \/ MlxResolveModel
    \/ PrepLoad
    \/ PrepShuffleAndSize
    \/ PrepCheckTotal
    \/ PrepDupStep
    \/ PrepDupDone
    \/ PrepWrite
    \/ MlxCheckExamples
    \/ MlxAdjustBatch
    \/ MlxCalcIters
    \/ MlxBuildCmd
    \/ MlxRunTraining
    \/ MlxComplete
    \/ UnslothStart
    \/ UnslothResolveModel
    \/ UnslothRunTraining
    \/ UnslothComplete

Spec == Init /\ [][Next]_vars

SpecPrepare == InitPrepare /\ [][NextPrepare]_vars

\* ------------------------------------------------------------- properties
\* The input lines that hold an example, and their number N.
ExampleLines == {i \in 1..Len(file) : file[i].kind = "json"}
NumInput == Cardinality(ExampleLines)

Ids(ex) == {ex[i].id : i \in 1..Len(ex)}

\* The splits have been written.
Written == pc \notin {"start", "resolve_model", "prep_load", "prep_shuffle",
                      "prep_check", "prep_dup", "prep_slice"}
           /\ unhandled # "JSONDecodeError"
           /\ script = "finetune-mlx.py" /\ lib_installed

\* C1: for an input of N >= 2*min_batch_size examples nothing is duplicated and
\* the splits partition the shuffled list: valid is its first val_size
\* positions, train the remaining ones, no example is in both, and
\* len(train) + len(valid) = N.
C1_SplitsPartition ==
    (Written /\ NumInput >= 2 * min_batch_size) =>
        /\ Len(examples) = NumInput
        /\ Ids(examples) = ExampleLines
        /\ "Note: duplicating" \notin printed
        /\ Len(valid_examples) = val_size
        /\ \A i \in 1..Len(valid_examples) : valid_examples[i] = examples[i]
        /\ Len(train_examples) = NumInput - val_size
        /\ \A i \in 1..Len(train_examples) : train_examples[i] = examples[val_size + i]
        /\ Ids(train_examples) \cap Ids(valid_examples) = {}
        /\ Len(train_examples) + Len(valid_examples) = NumInput
        /\ Len(train_jsonl) + Len(valid_jsonl) = NumInput

C1_Witness ==
    /\ Written
    /\ NumInput >= 2 * min_batch_size
    /\ val_size > min_batch_size
    /\ Len(train_examples) >= 2
    /\ Len(valid_examples) >= 2

\* C4: whenever the splits are written the validation split has at least
\* min_batch_size examples: exactly max(min_batch_size, floor(N * val_split))
\* without padding, exactly min_batch_size with padding.
C4_ValidationSize ==
    Written =>
        /\ Len(valid_jsonl) >= min_batch_size
        /\ Len(valid_jsonl) = Len(valid_examples)
        /\ NumInput >= 2 * min_batch_size =>
              Len(valid_jsonl) =
                  (IF (NumInput * val_split[1]) \div val_split[2] >= min_batch_size
                   THEN (NumInput * val_split[1]) \div val_split[2]
                   ELSE min_batch_size)
        /\ NumInput < 2 * min_batch_size => Len(valid_jsonl) = min_batch_size

C4_Witness ==
    /\ Written
    /\ NumInput >= 2 * min_batch_size
    /\ (NumInput * val_split[1]) \div val_split[2] > min_batch_size
    /\ Len(valid_jsonl) > min_batch_size

\* The tokens of `text` are the blocks of the supported-role messages of
\* `messages`, in their order, each tagged with its own role, joined by newlines.
Supported(messages) ==
    SelectSeq(messages, LAMBDA m : m.role \in {"system", "user", "assistant"})

TextMatches(text, messages) ==
    LET s == Supported(messages)
        k == Len(s)
    IN /\ Len(text) = (IF k = 0 THEN 0 ELSE 6 * k - 1)
       /\ \A j \in 1..k :
            /\ text[6 * (j - 1) + 1] = "<|im_start|>"
            /\ text[6 * (j - 1) + 2] = s[j].role
            /\ text[6 * (j - 1) + 3] = "\n"
            /\ text[6 * (j - 1) + 4] = s[j].content
            /\ text[6 * (j - 1) + 5] = "<|im_end|>"
            /\ j < k => text[6 * j] = "\n"

\* C7: the text of every example is its messages converted one by one in their
\* order and joined with newlines, a system, user or assistant message becoming
\* '<|im_start|>' + its role + newline + its content + '<|im_end|>'.
C7_TemplatePreservesMessages ==
    /\ \A i \in 1..Len(examples) :
          TextMatches(examples[i].text, file[examples[i].id].messages)
    /\ Written =>
          /\ \A i \in 1..Len(train_jsonl) :
                TextMatches(train_jsonl[i], file[train_examples[i].id].messages)
          /\ \A i \in 1..Len(valid_jsonl) :
                TextMatches(valid_jsonl[i], file[valid_examples[i].id].messages)

C7_Witness ==
    /\ Written
    /\ Len(file) = 1
    /\ Len(file[1].messages) = 3
    /\ file[1].messages[1].role = "assistant"
    /\ file[1].messages[2].role = "user"
    /\ file[1].messages[3].role = "system"
    /\ Len(valid_jsonl) >= 1
    /\ Len(valid_jsonl[1]) = 17

\* C10: with val_split = 0.1 and N >= 1 both splits have at least
\* min_batch_size examples; when N < 2*min_batch_size the duplication loop makes
\* progress on every pass and ends with exactly 2*min_batch_size examples, each
\* a copy of an input example, every input example present, min_batch_size in
\* each split.
C10_BothSplitsMeetMinimum ==
    (val_split = DefaultValSplit /\ NumInput >= 1) =>
        /\ (pc = "prep_dup" /\ Len(examples) < 2 * min_batch_size) =>
              ENABLED <<PrepDupStep>>_vars
        /\ pc \in {"prep_dup", "prep_slice"} => Len(examples) <= Max(NumInput, 2 * min_batch_size)
        /\ Written =>
              /\ Len(train_examples) >= min_batch_size
              /\ Len(valid_examples) >= min_batch_size
              /\ NumInput < 2 * min_batch_size =>
                    /\ Len(examples) = 2 * min_batch_size
                    /\ Ids(examples) = ExampleLines
                    /\ \A i \in 1..Len(examples) :
                          examples[i].text = FormatMessages(file[examples[i].id].messages)
                    /\ Len(train_examples) = min_batch_size
                    /\ Len(valid_examples) = min_batch_size

C10_Witness ==
    /\ Written
    /\ val_split = DefaultValSplit
    /\ NumInput = 3
    /\ min_batch_size = 2
    /\ Len(examples) = 4
    /\ Len(train_examples) = 2

\* The data set of the run holds no example: an empty file or blank lines only.
EmptyDataset ==
    /\ script = "finetune-mlx.py"
    /\ \A i \in 1..Len(file) : file[i].kind = "blank"

\* C2: a run of finetune-mlx.py on a data set without examples terminates: it
\* keeps making progress until it has exited, it exits with a non-zero code
\* after printing an error, and it never starts the external training.
C2_EmptyDatasetExits ==
    EmptyDataset =>
        /\ pc = "exited" \/ ENABLED <<Next>>_vars
        /\ pc = "exited" => (exit_code # 0 /\ unhandled = None /\ printed # {})
        /\ ~cmd.built

\* C3: when the required training library is not installed (everything else
\* is), the run ends with a non-zero exit code, without an unhandled exception
\* and without starting a training.
C3_MissingLibraryExitsNonZero ==
    (~lib_installed /\ deps_installed /\ pc = "exited") =>
        /\ exit_code # 0
        /\ unhandled = None
        /\ ~cmd.built

\* C5: the iteration count handed to the external trainer as --iters is at
\* least 10: floor(num_examples * epochs / batch_size) when that is >= 10, and
\* 10 otherwise.
C5_ItersAtLeastMinimum ==
    (script = "finetune-mlx.py" /\ cmd.built) =>
        /\ cmd.iters >= 10
        /\ cmd.batch_size # 0
        /\ cmd.iters =
              (IF FloorDiv(num_examples * epochs, cmd.batch_size) >= 10
               THEN FloorDiv(num_examples * epochs, cmd.batch_size)
               ELSE 10)

C5_Witness ==
    /\ script = "finetune-mlx.py"
    /\ cmd.built
    /\ num_examples = 5
    /\ epochs = 10
    /\ cmd.batch_size = 4
    /\ cmd.iters = 12

\* C6: the batch size used to derive the iteration count and handed to the
\* external trainer is at least 1 and at most the number of train examples,
\* whatever --batch-size was requested.
C6_BatchSizeValidated ==
    (script = "finetune-mlx.py" /\ pc \in {"calc_iters", "build_cmd", "run", "complete"}) =>
        /\ batch_size >= 1
        /\ batch_size <= num_examples

Rejected ==
    \/ "error: argument --model: invalid choice" \in printed
    \/ "Unknown model" \in printed

TrainingFailed ==
    \/ proc.status = "FileNotFoundError"
    \/ proc.status = "returned" /\ proc.returncode # 0

\* C9: when the external training ends with a non-zero exit code or cannot be
\* launched, the script prints the failure with hints, exits with a non-zero
\* code and never prints 'Training Complete'; when it ends with 0 the script
\* prints 'Training Complete' and exits normally.
C9_SubprocessFailureSurfaced ==
    (script = "finetune-mlx.py" /\ proc.status # "not run") =>
        /\ unhandled = None
        /\ TrainingFailed =>
              /\ pc = "exited"
              /\ exit_code # 0
              /\ "=== Training Complete ===" \notin printed
              /\ \/ {"Training failed with exit code", "Troubleshooting:"} \subseteq printed
                 \/ {"Python or mlx-lm not found",
                     "Make sure you're in the correct Python environment"} \subseteq printed
        /\ ~TrainingFailed =>
              /\ pc \in {"complete", "exited"}
              /\ pc = "exited" =>
                    (exit_code = 0 /\ "=== Training Complete ===" \in printed)

C9_Witness ==
    /\ script = "finetune-mlx.py"
    /\ proc.status = "returned"
    /\ proc.returncode = -9
    /\ pc = "exited"
    /\ exit_code = 1

====
